---- MODULE Spec2Model ----
(***************************************************************************)
(* Model of the canonicalization and duplicate-detection code of the data  *)
(* cleaner: fixes/apply_fixes.py (apply_fixes and its helpers),            *)
(* ai/cleaning.py (clean_dataframe and its helpers) and                    *)
(* ai/context_ai_correct.py (safe_context_ai_clean).                       *)
(*                                                                         *)
(* Text is a sequence of one-character strings, so that casing, prefixes   *)
(* and edit similarity are computed rather than assumed.  Similarity       *)
(* scores are exact rationals <<numerator, denominator>> on the 0..100     *)
(* scale.                                                                  *)
(***************************************************************************)
EXTENDS Integers, Sequences, FiniteSets, TLC

VARIABLES
  REFS,        \* fixes/apply_fixes.py REFS: the reference lists built at import
  processor,   \* TRUE iff the installed rapidfuzz applies default_process
               \* (lower-casing) in process.extractOne when none is passed
               \* (rapidfuzz < 3.0); FALSE for rapidfuzz >= 3.0
  pc,          \* "idle" before the call, then the name of the call made
  call,        \* the arguments of the call
  prev,        \* what the call before it returned
  result,      \* what the call returned
  files,       \* data/whitelist.txt, data/user_mappings.json,
               \* data/change_log.json, cleaned_output.csv
  heap,        \* the DataFrame objects in memory: heap[r] is the table the
               \* reference r names
  sessions     \* per session of the app: where its append_changelog call
               \* stands and the log it holds in memory

vars == <<REFS, processor, pc, call, prev, result, files, heap, sessions>>

\* Python's None, told apart from every text (texts hold single characters).
NoneVal == <<"None">>
Truthy(x) == x # NoneVal /\ x # <<>>

(***************************************************************************)
(* Characters and Python's str methods                                     *)
(***************************************************************************)
LowerChars == <<"a","b","c","d","e","f","g","h","i","j","k","l","m",
                "n","o","p","q","r","s","t","u","v","w","x","y","z">>
UpperChars == <<"A","B","C","D","E","F","G","H","I","J","K","L","M",
                "N","O","P","Q","R","S","T","U","V","W","X","Y","Z">>

LowerSetOfChars == {LowerChars[i] : i \in 1..26}
UpperSetOfChars == {UpperChars[i] : i \in 1..26}
ToLower == [c \in UpperSetOfChars |-> LowerChars[CHOOSE i \in 1..26 : UpperChars[i] = c]]
ToUpper == [c \in LowerSetOfChars |-> UpperChars[CHOOSE i \in 1..26 : LowerChars[i] = c]]
LowerRank == [c \in LowerSetOfChars |-> CHOOSE i \in 1..26 : LowerChars[i] = c]
UpperRank == [c \in UpperSetOfChars |-> CHOOSE i \in 1..26 : UpperChars[i] = c]
DigitChars == <<"0","1","2","3","4","5","6","7","8","9">>
Digits == {DigitChars[i] : i \in 1..10}
DigitRank == [c \in Digits |-> CHOOSE i \in 1..10 : DigitChars[i] = c]

IsLowerChar(c) == c \in LowerSetOfChars
IsUpperChar(c) == c \in UpperSetOfChars
IsLetter(c) == IsLowerChar(c) \/ IsUpperChar(c)
IsDigit(c) == c \in Digits
IsSpace(c) == c = " "

LowerChar(c) == IF IsUpperChar(c) THEN ToLower[c] ELSE c
UpperChar(c) == IF IsLowerChar(c) THEN ToUpper[c] ELSE c

\* Code-point order on the characters the modelled texts are made of: space,
\* digits, upper-case letters, '_', lower-case letters, '|'.
Ord(c) ==
  IF IsLowerChar(c) THEN 96 + LowerRank[c]
  ELSE IF c = "|" THEN 124
  ELSE IF IsUpperChar(c) THEN 64 + UpperRank[c]
  ELSE IF c = "_" THEN 95
  ELSE IF IsDigit(c) THEN 47 + DigitRank[c]
  ELSE 32

\* str.lower()
Lower(s) == [i \in 1..Len(s) |-> LowerChar(s[i])]

\* str.title(): the first letter of every run of letters is upper-cased, the
\* other letters of the run are lower-cased.
Title(s) ==
  [i \in 1..Len(s) |->
     IF i = 1 \/ ~IsLetter(s[i-1]) THEN UpperChar(s[i]) ELSE LowerChar(s[i])]

\* str.strip()
RECURSIVE LStrip(_)
LStrip(s) == IF s # <<>> /\ IsSpace(Head(s)) THEN LStrip(Tail(s)) ELSE s
RECURSIVE RStrip(_)
RStrip(s) ==
  IF s # <<>> /\ IsSpace(s[Len(s)]) THEN RStrip(SubSeq(s, 1, Len(s) - 1)) ELSE s
Strip(s) == RStrip(LStrip(s))

\* s[:n]
Prefix(s, n) == SubSeq(s, 1, IF Len(s) < n THEN Len(s) ELSE n)

\* needle in haystack (substring test)
Contains(hay, needle) ==
  \E i \in 0..(Len(hay) - Len(needle)) :
     SubSeq(hay, i + 1, i + Len(needle)) = needle

\* s.endswith(suffix)
EndsWith(s, suffix) ==
  /\ Len(s) >= Len(suffix)
  /\ SubSeq(s, Len(s) - Len(suffix) + 1, Len(s)) = suffix

\* Python's < on str (lexicographic by code point)
RECURSIVE StrLess(_, _)
StrLess(a, b) ==
  IF b = <<>> THEN FALSE
  ELSE IF a = <<>> THEN TRUE
  ELSE IF Head(a) = Head(b) THEN StrLess(Tail(a), Tail(b))
  ELSE Ord(Head(a)) < Ord(Head(b))

\* " ".join(str(s).split()).strip()
RECURSIVE normalize_whitespace(_)
normalize_whitespace(s) ==
  LET t == Strip(s) IN
  IF t = <<>> THEN <<>>
  ELSE LET sp == IF \E i \in 1..Len(t) : IsSpace(t[i])
                 THEN CHOOSE i \in 1..Len(t) :
                        IsSpace(t[i]) /\ \A j \in 1..(i-1) : ~IsSpace(t[j])
                 ELSE 0
       IN IF sp = 0 THEN t
          ELSE SubSeq(t, 1, sp - 1) \o <<" ">>
               \o normalize_whitespace(SubSeq(t, sp + 1, Len(t)))

(***************************************************************************)
(* rapidfuzz: fuzz.ratio, fuzz.partial_ratio, fuzz.WRatio                  *)
(* Scores are rationals <<n, d>> with d > 0, standing for n / d.           *)
(***************************************************************************)
RGeq(a, b) == a[1] * b[2] >= b[1] * a[2]
RMax(a, b) == IF RGeq(a, b) THEN a ELSE b
RScale(a, n, d) == <<a[1] * n, a[2] * d>>
RInt(n) == <<n, 1>>
RZero == RInt(0)

Max2(x, y) == IF x >= y THEN x ELSE y

\* Length of the longest common subsequence, by rows of the usual table.
RECURSIVE LcsRow(_, _, _, _, _)
LcsRow(c, b, above, j, acc) ==
  IF j > Len(b) THEN acc
  ELSE LET left == IF j = 1 THEN 0 ELSE acc[j-1]
           diag == IF j = 1 THEN 0 ELSE above[j-1]
           v == IF c = b[j] THEN diag + 1 ELSE Max2(above[j], left)
       IN LcsRow(c, b, above, j + 1, Append(acc, v))
RECURSIVE LcsRows(_, _, _, _)
LcsRows(a, b, i, above) ==
  IF i > Len(a) THEN above
  ELSE LcsRows(a, b, i + 1, LcsRow(a[i], b, above, 1, <<>>))
LcsLen(a, b) ==
  IF a = <<>> \/ b = <<>> THEN 0
  ELSE LcsRows(a, b, 1, [j \in 1..Len(b) |-> 0])[Len(b)]

\* fuzz.ratio: normalized Indel similarity, 100 * 2 * lcs / (len1 + len2).
ratio(s1, s2) ==
  IF Len(s1) + Len(s2) = 0 THEN RInt(100)
  ELSE <<200 * LcsLen(s1, s2), Len(s1) + Len(s2)>>

\* fuzz.partial_ratio: the best fuzz.ratio of the shorter string against a
\* window of the longer one (the windows of the shorter string's length, and
\* the shorter prefixes and suffixes of the longer string).
RECURSIVE RMaxOver(_, _, _)
RMaxOver(short, wins, best) ==
  IF wins = <<>> THEN best
  ELSE RMaxOver(short, Tail(wins), RMax(best, ratio(short, Head(wins))))
partial_ratio(s1, s2) ==
  LET short == IF Len(s1) <= Len(s2) THEN s1 ELSE s2
      long == IF Len(s1) <= Len(s2) THEN s2 ELSE s1
      m == Len(short)
      n == Len(long)
      full == [i \in 1..(n - m + 1) |-> SubSeq(long, i, i + m - 1)]
      pre == [i \in 1..(m - 1) |-> SubSeq(long, 1, i)]
      suf == [i \in 1..(m - 1) |-> SubSeq(long, n - i + 1, n)]
  IN IF m = 0 THEN RZero ELSE RMaxOver(short, full \o pre \o suf, RZero)

\* fuzz.WRatio on strings of one token each (no inner whitespace), where the
\* token ratios coincide with fuzz.ratio and fuzz.partial_ratio.
WRatio(s1, s2) ==
  IF s1 = <<>> \/ s2 = <<>> THEN RZero
  ELSE LET l1 == Len(s1)
           l2 == Len(s2)
           big == Max2(l1, l2)
           small == IF l1 <= l2 THEN l1 ELSE l2
       IN IF 2 * big < 3 * small                  \* len_ratio < 1.5
          THEN ratio(s1, s2)
          ELSE IF big <= 8 * small                \* PARTIAL_SCALE = 0.9
          THEN RMax(ratio(s1, s2), RScale(partial_ratio(s1, s2), 9, 10))
          ELSE RMax(ratio(s1, s2), RScale(partial_ratio(s1, s2), 6, 10))

(***************************************************************************)
(* Tables (pandas.DataFrame with object columns of str)                    *)
(*   columns : the column names, in order                                  *)
(*   index   : the row labels, in row order                                *)
(*   rows    : one function column -> cell per row                         *)
(* Row positions are counted from 0 as in the code.                        *)
(***************************************************************************)
NRows(df) == Len(df.rows)
HasCol(df, c) == \E k \in 1..Len(df.columns) : df.columns[k] = c
RangeIndex(n) == [p \in 1..n |-> p - 1]

\* df[c] = df[c].apply(f), f given as the sequence of new cells
SetCol(df, c, cells) ==
  [columns |-> IF HasCol(df, c) THEN df.columns ELSE Append(df.columns, c),
   index |-> df.index,
   rows |-> [p \in 1..NRows(df) |->
               [d \in {df.columns[k] : k \in 1..Len(df.columns)} \cup {c} |->
                  IF d = c THEN cells[p] ELSE df.rows[p][d]]]]

Column(df, c) == [p \in 1..NRows(df) |-> df.rows[p][c]]

\* df.at[label, c]: the cell of the row labelled label.  "KeyError" when no
\* row carries the label.
HasLabel(df, label) == \E p \in 1..NRows(df) : df.index[p] = label
At(df, label, c) ==
  df.rows[CHOOSE p \in 1..NRows(df) : df.index[p] = label][c]

(***************************************************************************)
(* fixes/apply_fixes.py helpers                                            *)
(***************************************************************************)
\* nameparser's HumanName leaves the case of a one-token name alone; str(hn)
\* is the name itself.
smart_titlecase_name(name) ==
  IF name = NoneVal \/ Strip(name) = <<>> THEN <<>>
  ELSE normalize_whitespace(name)

titlecase_text(s) ==
  IF s = NoneVal THEN <<>> ELSE Title(normalize_whitespace(s))

\* process.extractOne(query, choices, scorer=fuzz.WRatio): the first choice of
\* the highest score.
Processed(s) == IF processor THEN Lower(s) ELSE s
RECURSIVE extractOne(_, _, _, _)
extractOne(query, choices, k, best) ==
  IF k > Len(choices) THEN best
  ELSE LET sc == WRatio(Processed(query), Processed(choices[k]))
       IN extractOne(query, choices, k + 1,
                     IF best.match = NoneVal \/ ~RGeq(best.score, sc)
                     THEN [match |-> choices[k], score |-> sc] ELSE best)

fuzzy_match_one(query, choices) ==
  IF query = <<>> \/ choices = <<>> THEN [match |-> NoneVal, score |-> RZero]
  ELSE extractOne(query, choices, 1, [match |-> NoneVal, score |-> RZero])

LowerSet(list) == {Lower(list[k]) : k \in 1..Len(list)}
country_set == LowerSet(REFS.country_list)
city_set == LowerSet(REFS.city_list)
name_set == LowerSet(REFS.name_list)

NameCutoff == 92

correct_value_by_type(val, col_type, fuzzy_threshold) ==
  IF val = NoneVal THEN <<>>
  ELSE LET s == Strip(val)
           low == Lower(s)
       IN IF s = <<>> THEN <<>>
          ELSE IF col_type = "country" THEN
            IF low \in country_set THEN titlecase_text(s)
            ELSE LET m == fuzzy_match_one(s, REFS.country_list)
                 IN IF Truthy(m.match) /\ RGeq(m.score, RInt(fuzzy_threshold))
                    THEN titlecase_text(m.match)
                    ELSE titlecase_text(s)
          ELSE IF col_type = "city" THEN
            IF low \in city_set THEN titlecase_text(s)
            ELSE LET m == fuzzy_match_one(s, REFS.city_list)
                 IN IF Truthy(m.match) /\ RGeq(m.score, RInt(fuzzy_threshold))
                    THEN titlecase_text(m.match)
                    ELSE titlecase_text(s)
          ELSE IF col_type = "name" THEN
            IF low \in name_set THEN smart_titlecase_name(s)
            ELSE LET m == IF Len(REFS.name_list) > 0
                          THEN fuzzy_match_one(s, REFS.name_list)
                          ELSE [match |-> NoneVal, score |-> RZero]
                 IN IF Truthy(m.match) /\ RGeq(m.score, RInt(NameCutoff))
                    THEN smart_titlecase_name(m.match)
                    ELSE smart_titlecase_name(s)
          ELSE titlecase_text(s)

(***************************************************************************)
(* Texts the code spells out                                               *)
(***************************************************************************)
kw_name == <<"n","a","m","e">>
kw_full_name == <<"f","u","l","l","_","n","a","m","e">>
kw_person == <<"p","e","r","s","o","n">>
kw_country == <<"c","o","u","n","t","r","y">>
kw_nation == <<"n","a","t","i","o","n">>
kw_city == <<"c","i","t","y">>
kw_town == <<"t","o","w","n">>
kw_place == <<"p","l","a","c","e">>
kw_location == <<"l","o","c","a","t","i","o","n">>
kw_email == <<"e","m","a","i","l">>
kw_e_mail == <<"e","-","m","a","i","l">>
canonical_suffix == <<"_","c","a","n","o","n","i","c","a","l">>

\* guess_col: the first column whose lower-cased name contains a keyword
guess_col(df, keywords) ==
  LET hit(k) == \E w \in keywords : Contains(Lower(df.columns[k]), w)
  IN IF \E k \in 1..Len(df.columns) : hit(k)
     THEN df.columns[CHOOSE k \in 1..Len(df.columns) :
                        hit(k) /\ \A h \in 1..(k-1) : ~hit(h)]
     ELSE NoneVal

GuessedConfig(df) ==
  [given |-> TRUE,
   name_col |-> guess_col(df, {kw_name, kw_full_name, kw_person}),
   country_col |-> guess_col(df, {kw_country, kw_nation}),
   city_col |-> guess_col(df, {kw_city, kw_town, kw_place, kw_location}),
   email_col |-> guess_col(df, {kw_email, kw_e_mail})]

\* lines 160-162: strip and collapse whitespace in every object column
BasicCleaning(df) ==
  [df EXCEPT !.rows =
     [p \in 1..NRows(df) |->
        [c \in DOMAIN df.rows[p] |-> normalize_whitespace(df.rows[p][c])]]]

\* lines 165-169: df[col].astype(str).replace(mapping) per mapped column.
\* manual_mappings is a function column -> (old text -> new text); None and
\* the empty dict are the function of empty domain.
ApplyManualMappings(df, manual_mappings) ==
  [df EXCEPT !.rows =
     [p \in 1..NRows(df) |->
        [c \in DOMAIN df.rows[p] |->
           IF /\ c \in DOMAIN manual_mappings
              /\ df.rows[p][c] \in DOMAIN manual_mappings[c]
           THEN manual_mappings[c][df.rows[p][c]]
           ELSE df.rows[p][c]]]]

\* lines 233-257: the typed corrections, one step per block of the code
Corrected(df, c, col_type, fuzzy_threshold) ==
  [p \in 1..NRows(df) |->
     correct_value_by_type(df.rows[p][c], col_type, fuzzy_threshold)]

\* lines 234-236: names are corrected in place
CorrectNames(df, cfg, fuzzy_threshold) ==
  IF Truthy(cfg.name_col) /\ HasCol(df, cfg.name_col)
  THEN SetCol(df, cfg.name_col,
              Corrected(df, cfg.name_col, "name", fuzzy_threshold))
  ELSE df

\* lines 239-241: df[country_col + "_canonical"]
CanonicalCountries(df, cfg, fuzzy_threshold) ==
  IF Truthy(cfg.country_col) /\ HasCol(df, cfg.country_col)
  THEN SetCol(df, cfg.country_col \o canonical_suffix,
              Corrected(df, cfg.country_col, "country", fuzzy_threshold))
  ELSE df

\* lines 244-246: df[city_col + "_canonical"]
CanonicalCities(df, cfg, fuzzy_threshold) ==
  IF Truthy(cfg.city_col) /\ HasCol(df, cfg.city_col)
  THEN SetCol(df, cfg.city_col \o canonical_suffix,
              Corrected(df, cfg.city_col, "city", fuzzy_threshold))
  ELSE df

\* lines 249-251: e-mail addresses are stripped and lower-cased
LowerEmails(df, cfg) ==
  IF Truthy(cfg.email_col) /\ HasCol(df, cfg.email_col)
  THEN SetCol(df, cfg.email_col,
              [p \in 1..NRows(df) |-> Lower(Strip(df.rows[p][cfg.email_col]))])
  ELSE df

\* lines 254-257: every other object column not ending "_canonical" is
\* title-cased
TitleOthers(df, cfg) ==
  LET handled == {c \in {cfg.name_col, cfg.country_col,
                         cfg.city_col, cfg.email_col} : Truthy(c)}
  IN [df EXCEPT !.rows =
        [p \in 1..NRows(df) |->
           [c \in DOMAIN df.rows[p] |->
              IF c \notin handled /\ ~EndsWith(c, canonical_suffix)
              THEN titlecase_text(df.rows[p][c])
              ELSE df.rows[p][c]]]]

TypedCorrections(df0, cfg, fuzzy_threshold) ==
  TitleOthers(
    LowerEmails(
      CanonicalCities(
        CanonicalCountries(CorrectNames(df0, cfg, fuzzy_threshold),
                           cfg, fuzzy_threshold),
        cfg, fuzzy_threshold),
      cfg),
    cfg)

(***************************************************************************)
(* lines 259-309: duplicate detection with blocking                        *)
(***************************************************************************)
NaN == <<"NaN">>
Bar == <<"|">>

HasNameKey(df, cfg) == HasCol(df, cfg.name_col)
HasCityKey(df, cfg) ==
  Truthy(cfg.city_col) /\ HasCol(df, cfg.city_col \o canonical_suffix)

\* BlockKeyAt without the name part (line 265 left out).
BlockKeyAtNoName(df, cfg, p) ==
  IF HasCityKey(df, cfg)
  THEN Lower(Prefix(df.rows[p][cfg.city_col \o canonical_suffix], 3))
  ELSE <<>>

\* The block key computed from the row at position p (1-based): first
\* character of the name, first three of the canonical city, lower-cased.
BlockKeyAt(df, cfg, p) ==
  LET nk == Lower(Prefix(df.rows[p][cfg.name_col], 1))
      ck == Lower(Prefix(df.rows[p][cfg.city_col \o canonical_suffix], 3))
  IN IF HasNameKey(df, cfg) /\ HasCityKey(df, cfg) THEN nk \o Bar \o ck
     ELSE IF HasNameKey(df, cfg) THEN nk
     ELSE IF HasCityKey(df, cfg) THEN ck
     ELSE <<>>

\* df['_block_key']: a single key series carries the table's index; the
\* joined series is built from a list, so it is indexed 0..n-1 and assigned
\* to the table by label (a label outside 0..n-1 gets NaN).
block_key(df, cfg, p) ==
  IF HasNameKey(df, cfg) /\ HasCityKey(df, cfg)
  THEN IF df.index[p] \in 0..(NRows(df) - 1)
       THEN BlockKeyAt(df, cfg, df.index[p] + 1)
       ELSE NaN
  ELSE BlockKeyAt(df, cfg, p)

\* groupby('_block_key').indices: the keys in ascending order (NaN dropped),
\* each with the positions of its rows in ascending order.
RECURSIVE SortedKeys(_)
SortedKeys(S) ==
  IF S = {} THEN <<>>
  ELSE LET m == CHOOSE x \in S : \A y \in S \ {x} : StrLess(x, y)
       IN <<m>> \o SortedKeys(S \ {m})

GroupKeys(df, cfg) ==
  SortedKeys({block_key(df, cfg, p) : p \in 1..NRows(df)} \ {NaN})

\* PairsFrom with the inner loop starting at i_pos instead of i_pos + 1.
RECURSIVE PairsFromSelf(_, _, _)
PairsFromSelf(n, i, j) ==
  IF i > n THEN <<>>
  ELSE IF j > n THEN PairsFromSelf(n, i + 1, i + 1)
  ELSE <<<<i, j>>>> \o PairsFromSelf(n, i, j + 1)

RECURSIVE PairsFrom(_, _, _)
PairsFrom(n, i, j) ==
  IF i >= n THEN <<>>
  ELSE IF j > n THEN PairsFrom(n, i + 1, i + 2)
  ELSE <<<<i, j>>>> \o PairsFrom(n, i, j + 1)

\* The pairs (i, j) of row positions, counted from 0, in the order the two
\* nested loops of lines 283-284 visit them within one bucket.
BucketPairs(df, cfg, key) ==
  LET idx_list == SelectSeq([p \in 1..NRows(df) |-> p - 1],
                            LAMBDA q : block_key(df, cfg, q + 1) = key)
      pp == IF Len(idx_list) < 2 THEN <<>>
            ELSE PairsFrom(Len(idx_list), 1, 2)
  IN [k \in 1..Len(pp) |-> <<idx_list[pp[k][1]], idx_list[pp[k][2]]>>]

RECURSIVE CandidatePairsFrom(_, _, _, _)
CandidatePairsFrom(df, cfg, keys, k) ==
  IF k > Len(keys) THEN <<>>
  ELSE BucketPairs(df, cfg, keys[k]) \o CandidatePairsFrom(df, cfg, keys, k + 1)

\* every pair the loops of lines 279-286 reach, in the order they reach it
CandidatePairs(df, cfg) == CandidatePairsFrom(df, cfg, GroupKeys(df, cfg), 1)

\* lines 287-302 for the pair (i, j): TRUE when the statements raise
\* (df.at of a label no row carries; None + "_canonical")
ScoringRaises(df, cfg, i, j) ==
  \/ HasCol(df, cfg.name_col) /\ (~HasLabel(df, i) \/ ~HasLabel(df, j))
  \/ cfg.city_col = NoneVal
  \/ /\ HasCol(df, cfg.city_col \o canonical_suffix)
     /\ (~HasLabel(df, i) \/ ~HasLabel(df, j))

\* 0.75 * base_score + 0.25 * city_score
Combine(base, city) ==
  <<3 * base[1] * city[2] + city[1] * base[2], 4 * base[2] * city[2]>>

\* lines 287-302 for the pair (i, j): the value of combined
PairScore(df, cfg, i, j) ==
  LET n1 == Lower(At(df, i, cfg.name_col))
      n2 == Lower(At(df, j, cfg.name_col))
      base_score == IF HasCol(df, cfg.name_col) /\ n1 # <<>> /\ n2 # <<>>
                    THEN WRatio(n1, n2) ELSE RZero
      cc == cfg.city_col \o canonical_suffix
      c1 == Lower(At(df, i, cc))
      c2 == Lower(At(df, j, cc))
  IN IF HasCol(df, cc)
     THEN IF c1 # <<>> /\ c2 # <<>>
          THEN Combine(base_score, WRatio(c1, c2))
          ELSE base_score
     ELSE base_score

\* The loop of lines 279-304 inside the try of line 261: the first pair whose
\* scoring raises ends the loop in the except clause of lines 307-309, which
\* returns an empty duplicates table.
RECURSIVE ScorePairs(_, _, _, _, _, _)
ScorePairs(df, cfg, fuzzy_threshold, pairs, k, dup_pairs) ==
  IF k > Len(pairs) THEN [duplicates |-> dup_pairs, dup_error |-> FALSE]
  ELSE LET i == pairs[k][1]
           j == pairs[k][2]
       IN IF ScoringRaises(df, cfg, i, j)
          THEN [duplicates |-> <<>>, dup_error |-> TRUE]
          ELSE LET combined == PairScore(df, cfg, i, j)
               IN ScorePairs(df, cfg, fuzzy_threshold, pairs, k + 1,
                    IF RGeq(combined, RInt(fuzzy_threshold))
                    THEN Append(dup_pairs,
                                [row_i |-> i, row_j |-> j, score |-> combined])
                    ELSE dup_pairs)

DetectDuplicates(df, cfg, fuzzy_threshold) ==
  ScorePairs(df, cfg, fuzzy_threshold, CandidatePairs(df, cfg), 1, <<>>)

(***************************************************************************)
(* apply_fixes(df, columns_config, manual_mappings, fuzzy_threshold)       *)
(***************************************************************************)
\* columns_config None is the record NoConfig (given = FALSE); a dict that
\* lacks a key holds None for it, as columns_config.get returns.
NoConfig ==
  [given |-> FALSE, name_col |-> NoneVal, country_col |-> NoneVal,
   city_col |-> NoneVal, email_col |-> NoneVal]
NoMappings == [c \in {} |-> <<>>]

ColumnsConfig(df, columns_config) ==
  IF ~columns_config.given THEN GuessedConfig(df) ELSE columns_config

Cleaned(df, columns_config, manual_mappings, fuzzy_threshold) ==
  TypedCorrections(ApplyManualMappings(BasicCleaning(df), manual_mappings),
                   ColumnsConfig(df, columns_config), fuzzy_threshold)

\* The returned pair: the cleaned table and the duplicates found in it.
\* dup_error records that the except clause of lines 307-309 ran.
Returning(cleaned, dd) ==
  [cleaned_df |-> cleaned,
   duplicates_df |-> dd.duplicates,
   dup_error |-> dd.dup_error]

WithDuplicates(cleaned, cfg, fuzzy_threshold) ==
  Returning(cleaned, DetectDuplicates(cleaned, cfg, fuzzy_threshold))

apply_fixes(df, columns_config, manual_mappings, fuzzy_threshold) ==
  WithDuplicates(Cleaned(df, columns_config, manual_mappings, fuzzy_threshold),
                 ColumnsConfig(df, columns_config), fuzzy_threshold)

(***************************************************************************)
(* ai/cleaning.py                                                          *)
(***************************************************************************)
\* KNOWN_NAMES, KNOWN_CITIES, KNOWN_COUNTRIES are read at import from the
\* csv files REFS is read from.
KNOWN_NAMES == REFS.name_list
KNOWN_CITIES == REFS.city_list
KNOWN_COUNTRIES == REFS.country_list

\* sorted(items), for the lines of whitelist.txt
RECURSIVE SortedTexts(_)
SortedTexts(S) ==
  IF S = {} THEN <<>>
  ELSE LET m == CHOOSE x \in S : \A y \in S \ {x} : StrLess(x, y)
       IN <<m>> \o SortedTexts(S \ {m})

\* load_whitelist: the stripped non-empty lines, as they are stored
load_whitelist ==
  {Strip(files.whitelist[k]) : k \in 1..Len(files.whitelist)} \ {<<>>}

\* A python dict of texts: its items in insertion order, the keys distinct.
EmptyDict == <<>>
DictKeys(d) == {d[k].key : k \in 1..Len(d)}
DictGet(d, key) == d[CHOOSE k \in 1..Len(d) : d[k].key = key].value
DictSet(d, key, value) ==
  IF key \in DictKeys(d)
  THEN [k \in 1..Len(d) |->
          IF d[k].key = key THEN [key |-> key, value |-> value] ELSE d[k]]
  ELSE Append(d, [key |-> key, value |-> value])

\* The text json.dump writes for a dict, as the pieces it is written in: the
\* opening brace, one piece per item, the closing brace.  A file that does not
\* exist and a file of no bytes are both the empty sequence: load_json returns
\* its default for either.
JsonOpen == [tok |-> "{", key |-> <<>>, value |-> <<>>]
JsonClose == [tok |-> "}", key |-> <<>>, value |-> <<>>]
JsonItem(e) == [tok |-> "item", key |-> e.key, value |-> e.value]
json_dump(d) ==
  <<JsonOpen>> \o [k \in 1..Len(d) |-> JsonItem(d[k])] \o <<JsonClose>>

\* json.load raises on a text that is not one whole object
JsonValid(doc) ==
  /\ Len(doc) >= 2
  /\ doc[1] = JsonOpen
  /\ doc[Len(doc)] = JsonClose
  /\ \A k \in 2..(Len(doc) - 1) : doc[k].tok = "item"
json_load(doc) ==
  [k \in 1..(Len(doc) - 2) |-> [key |-> doc[k + 1].key, value |-> doc[k + 1].value]]

\* load_json(path, default): the default when the file is missing or json.load
\* raises
load_json(doc, default) ==
  IF doc # <<>> /\ JsonValid(doc) THEN json_load(doc) ELSE default

load_user_mappings == load_json(files.user_mappings, EmptyDict)

\* The text json.dump writes for a list, in pieces: the opening bracket, one
\* piece per element, the closing bracket.
ListOpen == [tok |-> "[", entry |-> NoneVal]
ListClose == [tok |-> "]", entry |-> NoneVal]
ListItem(e) == [tok |-> "entry", entry |-> e]
json_dump_list(log) ==
  <<ListOpen>> \o [k \in 1..Len(log) |-> ListItem(log[k])] \o <<ListClose>>

\* json.load raises on a text that is not one whole list
JsonListValid(doc) ==
  /\ Len(doc) >= 2
  /\ doc[1].tok = "["
  /\ doc[Len(doc)].tok = "]"
  /\ \A k \in 2..(Len(doc) - 1) : doc[k].tok = "entry"
json_load_list(doc) == [k \in 1..(Len(doc) - 2) |-> doc[k + 1].entry]

\* load_json(CHANGELOG_PATH, [])
load_changelog(doc) ==
  IF doc # <<>> /\ JsonListValid(doc) THEN json_load_list(doc) ELSE <<>>

\* open(path, "w") and a write of text from the start of the file by a session
\* that opened the file before another session wrote to it: what the other
\* session wrote beyond the end of text stays.
WriteFromStart(doc, text) == text \o SubSeq(doc, Len(text) + 1, Len(doc))

\* append_changelog(entry) for each entry of log in turn, by one session
\* alone
AppendAll(doc, log) ==
  IF log = <<>> THEN doc ELSE json_dump_list(load_changelog(doc) \o log)

\* save_user_mapping without the lower-casing of the key (line 75 as
\* m[src] = target).
UpsertMappingRaw(m, src, target) == DictSet(m, src, target)

\* line 75: m[src.lower()] = target
UpsertMapping(m, src, target) == DictSet(m, Lower(src), target)

\* fuzzy_fallback(value, candidates, threshold=88)
FallbackCutoff == 88
fuzzy_fallback(value, candidates) ==
  IF value = <<>> \/ candidates = <<>> THEN NoneVal
  ELSE LET best == extractOne(value, candidates, 1,
                              [match |-> NoneVal, score |-> RZero])
       IN IF best.match # NoneVal /\ RGeq(best.score, RInt(FallbackCutoff))
          THEN best.match ELSE NoneVal

\* str.isnumeric() on the modelled characters
IsNumeric(s) == s # <<>> /\ \A i \in 1..Len(s) : IsDigit(s[i])

RECURSIVE SumLen(_, _)
SumLen(cells, k) == IF k > Len(cells) THEN 0 ELSE Len(cells[k]) + SumLen(cells, k + 1)

\* is_identifier_column: numeric_frac > 0.8 and avg_len < 12, in integers
is_identifier_column(df, col) ==
  LET name == Lower(col)
      keywords == { <<"r","o","l","l">>, <<"i","d">>, <<"e","m","p">>,
                    <<"p","h","o","n","e">>, <<"m","o","b","i","l","e">>,
                    <<"a","d","h","a","r">>, <<"a","a","d","h","a","r">>,
                    <<"s","s","n">> }
      cells == Column(df, col)
      n == Len(cells)
      numeric == Cardinality({p \in 1..n : IsNumeric(cells[p])})
  IN \/ \E k \in keywords : Contains(name, k)
     \/ n > 0 /\ 10 * numeric > 8 * n /\ SumLen(cells, 1) < 12 * n

h_country == <<"c","o","u","n","t","r","y">>
h_city == <<"c","i","t","y">>
h_company == <<"c","o","m","p","a","n","y">>
h_organization == <<"o","r","g","a","n","i","z","a","t","i","o","n">>
h_name == <<"n","a","m","e">>
h_person == <<"p","e","r","s","o","n">>
h_student == <<"s","t","u","d","e","n","t">>

\* A number in a json answer: a python value that is no text
PyNumber == <<"123">>
IsText(x) == x # NoneVal /\ x # PyNumber

\* call_pdl_clean(value, field_hint) when the service behaves as response
\* says: the request times out, answers with an error status, answers with
\* a body that is no json, or answers {"cleaned": response.cleaned}.
call_pdl_clean(value, response) ==
  IF value = NoneVal THEN NoneVal
  ELSE IF response.kind \in {"timeout", "status", "not_json"} THEN NoneVal
  ELSE IF Truthy(response.cleaned) THEN response.cleaned
  ELSE NoneVal

\* suggest_corrections_for_value(value, col_hint); pdl is what call_pdl_clean
\* returns for the value.  The source "AttributeError" stands for the
\* exception line 138 raises when pdl is no text (p.lower()).
suggest_corrections_for_value(value, col_hint, pdl) ==
  LET v == IF value = NoneVal THEN <<>> ELSE Strip(value)
      mappings == load_user_mappings
      ref_list == IF col_hint \in {h_name, h_person, h_student} THEN KNOWN_NAMES
                  ELSE IF col_hint = h_city THEN KNOWN_CITIES
                  ELSE IF col_hint = h_country THEN KNOWN_COUNTRIES
                  ELSE <<>>
      f == fuzzy_fallback(v, ref_list)
  IN IF v = <<>> THEN [suggestion |-> NoneVal, source |-> "none"]
     ELSE IF Lower(v) \in DictKeys(mappings)
     THEN [suggestion |-> DictGet(mappings, Lower(v)), source |-> "user"]
     ELSE IF /\ col_hint \in {h_country, h_city, h_company, h_organization}
             /\ Truthy(pdl) /\ ~IsText(pdl)
     THEN [suggestion |-> NoneVal, source |-> "AttributeError"]
     ELSE IF /\ col_hint \in {h_country, h_city, h_company, h_organization}
             /\ Truthy(pdl) /\ Lower(pdl) # Lower(v)
     THEN [suggestion |-> pdl, source |-> "pdl"]
     ELSE IF Truthy(f) /\ Lower(f) # Lower(v)
     THEN [suggestion |-> f, source |-> "fuzzy"]
     ELSE [suggestion |-> NoneVal, source |-> "none"]

\* line 169: val_str
ValStr(val) == IF val = NoneVal THEN <<>> ELSE Strip(val)

\* lines 176-186 for one cell, given the suggestion sg: the corrected cell
\* and the change-log entries; raised when the suggestion step raised.
CellOutcome(col, val_str, sg) ==
  IF sg.source = "AttributeError"
  THEN [cell |-> val_str, log |-> <<>>, raised |-> TRUE]
  ELSE IF Truthy(sg.suggestion) /\ sg.suggestion # val_str
  THEN [cell |-> sg.suggestion,
        log |-> <<[column |-> col, original |-> val_str,
                   corrected |-> sg.suggestion, method |-> sg.source]>>,
        raised |-> FALSE]
  ELSE [cell |-> val_str, log |-> <<>>, raised |-> FALSE]

\* lines 168-186 for one cell
CleanCell(col, val, response) ==
  IF Lower(ValStr(val)) \in load_whitelist
  THEN [cell |-> val, log |-> <<>>, raised |-> FALSE]
  ELSE CellOutcome(col, ValStr(val),
         suggest_corrections_for_value(ValStr(val), Lower(col),
                                       call_pdl_clean(ValStr(val), response)))

\* The change log after one more cell: nothing is logged once a cell raised.
LogStep(acc, c) ==
  IF acc.raised THEN acc
  ELSE IF c.raised THEN [log |-> acc.log, raised |-> TRUE]
  ELSE [log |-> acc.log \o c.log, raised |-> FALSE]

RECURSIVE ColumnLog(_, _, _, _, _)
ColumnLog(df, col, response, p, acc) ==
  IF p > NRows(df) THEN acc
  ELSE ColumnLog(df, col, response, p + 1,
                 LogStep(acc, CleanCell(col, df.rows[p][col], response)))

\* The entries clean_dataframe appends to the change log, column by column,
\* and whether a cell raised (the entries of the cells before it are kept).
RECURSIVE TableLog(_, _, _, _)
TableLog(df, response, k, acc) ==
  IF k > Len(df.columns) THEN acc
  ELSE TableLog(df, response, k + 1,
                IF is_identifier_column(df, df.columns[k]) THEN acc
                ELSE ColumnLog(df, df.columns[k], response, 1, acc))

\* clean_dataframe(df): the returned table when no cell raises
clean_dataframe(df, response) ==
  [df EXCEPT !.rows =
     [p \in 1..NRows(df) |->
        [c \in DOMAIN df.rows[p] |->
           IF is_identifier_column(df, c) THEN df.rows[p][c]
           ELSE CleanCell(c, df.rows[p][c], response).cell]]]

(***************************************************************************)
(* Inputs                                                                  *)
(***************************************************************************)
MaxRows == 4
MaxRecordRows == 2
MaxLabelledRows == 3

t_Jon == <<"J","o","n">>
t_Jan == <<"J","a","n">>
t_Ron == <<"R","o","n">>
t_John == <<"J","o","h","n">>
t_Pune == <<"P","u","n","e">>
t_Rune == <<"R","u","n","e">>
t_Runa == <<"R","u","n","a">>
t_India == <<"I","n","d","i","a">>
t_USA == <<"U","S","A">>
t_usa == <<"u","s","a">>
t_indiaa == <<"i","n","d","i","a","a">>
t_ab == <<"a","b">>
t_12 == <<"1","2">>

t_Jordan == <<"J","o","r","d","a","n">>
t_Jordann == <<"J","o","r","d","a","n","n">>

c_name == <<"n","a","m","e">>
c_country_name == <<"c","o","u","n","t","r","y","_","n","a","m","e">>
c_city == <<"c","i","t","y">>
c_country == <<"c","o","u","n","t","r","y">>
c_roll_id == <<"r","o","l","l","_","i","d">>

\* The reference lists: the three csv files as shipped, or all unreadable.
RefChoices ==
  { [country_list |-> <<t_India, t_USA>>, city_list |-> <<t_Pune>>,
     name_list |-> <<t_John, t_Jordan>>],
    [country_list |-> <<>>, city_list |-> <<>>, name_list |-> <<>>] }

Thresholds == {70, 88}

RECURSIVE SeqsUpTo(_, _)
SeqsUpTo(S, n) ==
  IF n = 0 THEN {<<>>}
  ELSE LET shorter == SeqsUpTo(S, n - 1)
       IN shorter \cup {Append(q, x) : q \in {r \in shorter : Len(r) = n - 1}, x \in S}

ColSet(columns) == {columns[k] : k \in 1..Len(columns)}

\* A table of the given columns and rows with the given row labels.
MakeTable(columns, index, cells) ==
  [columns |-> columns,
   index |-> index,
   rows |-> [p \in 1..Len(cells) |-> [c \in ColSet(columns) |-> cells[p][c]]]]

\* Rows of a people table: name and city.
Person(n, c) == (c_name :> n) @@ (c_city :> c)
PeopleRows ==
  { Person(t_Jon, t_Pune), Person(t_Jon, t_Rune), Person(t_Jon, t_Runa),
    Person(t_Ron, t_Pune), Person(t_Jan, t_Pune) }

\* Tables as the file readers build them: rows labelled 0..n-1.
PeopleTables ==
  {MakeTable(cols, RangeIndex(Len(cells)), cells) :
     cols \in {<<c_name, c_city>>, <<c_name>>},
     cells \in SeqsUpTo(PeopleRows, MaxRows)}

\* Rows of a table of records with a key column and a country.
Record(r, n, c) == (c_roll_id :> r) @@ (c_name :> n) @@ (c_country :> c)
RecordRows ==
  {Record(r, t_Jon, c) : r \in {t_ab, t_12}, c \in {t_usa, t_USA, t_indiaa, t_India}}
RecordTables ==
  {MakeTable(<<c_roll_id, c_name, c_country>>, RangeIndex(Len(cells)), cells) :
     cells \in SeqsUpTo(RecordRows, MaxRecordRows) \ {<<>>}}

ExplicitConfig ==
  [given |-> TRUE,
   name_col |-> c_name, country_col |-> c_country, city_col |-> c_city,
   email_col |-> NoneVal]
ColumnConfigs == {NoConfig, ExplicitConfig}

\* manual_mappings = {"country": {"usa": "USA"}}
CountryMapping == (c_country :> (t_usa :> t_USA))
MappingChoices == {NoMappings, CountryMapping}

\* People tables with an empty name or an empty city in some rows.
MaxSparseRows == 2
SparseRows ==
  { Person(t_Jon, <<>>), Person(t_Jon, t_Pune), Person(<<>>, t_Pune) }
SparseTables ==
  {MakeTable(<<c_name, c_city>>, RangeIndex(Len(cells)), cells) :
     cells \in SeqsUpTo(SparseRows, MaxSparseRows) \ {<<>>}}

\* Tables whose country column is called "country_name".
MaxGeoRows == 2
GeoTables ==
  {MakeTable(<<c_country_name>>, RangeIndex(Len(cells)),
             [p \in 1..Len(cells) |-> (c_country_name :> cells[p])]) :
     cells \in SeqsUpTo({t_Jordann, t_India, t_usa}, MaxGeoRows) \ {<<>>}}

\* The (table, manual_mappings) arguments of the modelled calls.
CallInputs ==
  (PeopleTables \X {NoMappings}) \cup (RecordTables \X MappingChoices)
  \cup (SparseTables \X {NoMappings}) \cup (GeoTables \X {NoMappings})

\* Tables whose rows kept their labels after rows were dropped: the labels
\* are increasing but not 0..n-1.
IncreasingLabels(n) ==
  {ix \in [1..n -> 0..n] : \A p \in 1..(n-1) : ix[p] < ix[p+1]}
LabelledRowSeqs ==
  SeqsUpTo({Person(t_Jon, t_Pune), Person(t_Jan, t_Pune),
            Person(t_Ron, t_Pune)}, MaxLabelledRows) \ {<<>>}
LabelledTables ==
  UNION {{MakeTable(cols, ix, cells) :
            cols \in {<<c_name, c_city>>, <<c_name>>},
            ix \in IncreasingLabels(Len(cells))} : cells \in LabelledRowSeqs}

(***************************************************************************)
(* The state machine                                                       *)
(***************************************************************************)
NoCall == [op |-> "none"]

\* The sessions of the app that run at the same time, and a session that is
\* in no append_changelog call: log is the list the call holds in memory,
\* appended the entries of the calls that returned.
Sessions == {"s1", "s2"}
Waiting == [at |-> "idle", entry |-> NoneVal, log |-> <<>>, appended |-> <<>>]

Init ==
  /\ REFS \in RefChoices
  /\ processor \in BOOLEAN
  /\ pc = "idle"
  /\ call = NoCall
  /\ prev = NoCall
  /\ result = NoCall
  /\ files = [whitelist |-> <<>>, user_mappings |-> <<>>, change_log |-> <<>>,
              cleaned_output |-> <<>>]
  /\ heap = <<>>
  /\ sessions = [s \in Sessions |-> Waiting]

\* One call of apply_fixes on an uploaded table.
ApplyFixes ==
  /\ pc = "idle"
  /\ \E arg \in CallInputs, cfg \in ColumnConfigs, thr \in Thresholds :
       /\ call' = [op |-> "apply_fixes", df |-> arg[1], columns_config |-> cfg,
                   manual_mappings |-> arg[2], fuzzy_threshold |-> thr]
       /\ result' = apply_fixes(arg[1], cfg, arg[2], thr)
  /\ pc' = "apply_fixes"
  /\ UNCHANGED <<heap, sessions, REFS, processor, prev, files>>

\* The same call again with a higher threshold; prev keeps the first result.
Rerun ==
  /\ pc = "apply_fixes"
  /\ \E thr \in Thresholds :
       /\ thr > call.fuzzy_threshold
       /\ call' = [call EXCEPT !.fuzzy_threshold = thr]
       /\ result' = apply_fixes(call.df, call.columns_config,
                                call.manual_mappings, thr)
  /\ prev' = result
  /\ pc' = "rerun"
  /\ UNCHANGED <<heap, sessions, REFS, processor, files>>

Next == ApplyFixes \/ Rerun

Spec == Init /\ [][Next]_vars

\* apply_fixes on a table whose row labels are not the row positions.
ApplyFixesLabelled ==
  /\ pc = "idle"
  /\ \E df \in LabelledTables, cfg \in ColumnConfigs, thr \in Thresholds :
       /\ call' = [op |-> "apply_fixes", df |-> df, columns_config |-> cfg,
                   manual_mappings |-> NoMappings, fuzzy_threshold |-> thr]
       /\ result' = apply_fixes(df, cfg, NoMappings, thr)
  /\ pc' = "apply_fixes"
  /\ UNCHANGED <<heap, sessions, REFS, processor, prev, files>>

NextLabelled == ApplyFixesLabelled

SpecLabelled == Init /\ [][NextLabelled]_vars

\* correct_value_by_type applied to a value, then to its own output.
t_jon == <<"j","o","n">>
t_indya == <<"i","n","d","y","a">>
t_USAA == <<"U","S","A","A">>
CanonValues ==
  {t_usa, t_USA, t_India, t_indiaa, t_Pune, t_Rune, t_Jon, t_John, t_jon,
   t_indya, t_USAA}
ColTypes == {"name", "city", "country", "generic"}

Canonicalize ==
  /\ pc = "idle"
  /\ \E v \in CanonValues, t \in ColTypes, thr \in Thresholds :
       /\ call' = [op |-> "correct_value_by_type", val |-> v, col_type |-> t,
                   fuzzy_threshold |-> thr]
       /\ result' = [op |-> "correct_value_by_type",
                     out |-> correct_value_by_type(v, t, thr)]
  /\ pc' = "canonicalized"
  /\ UNCHANGED <<heap, sessions, REFS, processor, prev, files>>

CanonicalizeAgain ==
  /\ pc = "canonicalized"
  /\ result' = [op |-> "correct_value_by_type",
                out |-> correct_value_by_type(result.out, call.col_type,
                                              call.fuzzy_threshold)]
  /\ prev' = result
  /\ pc' = "recanonicalized"
  /\ UNCHANGED <<heap, sessions, REFS, processor, call, files>>

NextCanon == Canonicalize \/ CanonicalizeAgain

SpecCanon == Init /\ [][NextCanon]_vars

\* apply_fixes called with any python value: None, a value that is no
\* DataFrame (a list), or a table.
PyNone == [kind |-> "None"]
PyList == [kind |-> "list"]
IsDataFrame(x) == "rows" \in DOMAIN x
EmptyTable == [columns |-> <<>>, index |-> <<>>, rows |-> <<>>]

\* safe_copy_df that takes a value that is no table for an empty table
\* (lines 88-91 replaced by a default).
safe_copy_df_lenient(df) ==
  IF IsDataFrame(df) THEN [raised |-> "none", df |-> df]
  ELSE [raised |-> "none", df |-> EmptyTable]

\* safe_copy_df(df), lines 87-92: the exception it raises ("none" when it
\* returns) and the copy
safe_copy_df(df) ==
  IF ~IsDataFrame(df) /\ df.kind = "None" THEN [raised |-> "ValueError", df |-> df]
  ELSE IF ~IsDataFrame(df) THEN [raised |-> "TypeError", df |-> df]
  ELSE [raised |-> "none", df |-> df]

\* lines 139-322 after the copy of line 140: nothing is returned when the
\* copy raised.
apply_fixes_from(copy, columns_config, manual_mappings, fuzzy_threshold) ==
  IF copy.raised # "none"
  THEN [op |-> "apply_fixes", raised |-> copy.raised, returned |-> FALSE]
  ELSE [op |-> "apply_fixes", raised |-> "none", returned |-> TRUE,
        out |-> apply_fixes(copy.df, columns_config, manual_mappings,
                            fuzzy_threshold)]

AnyInputs == {PyNone, PyList} \cup RecordTables

ApplyFixesAny ==
  /\ pc = "idle"
  /\ \E df \in AnyInputs, cfg \in ColumnConfigs, m \in MappingChoices,
        thr \in Thresholds :
       /\ call' = [op |-> "apply_fixes", df |-> df, columns_config |-> cfg,
                   manual_mappings |-> m, fuzzy_threshold |-> thr]
       /\ result' = apply_fixes_from(safe_copy_df(df), cfg, m, thr)
  /\ pc' = "apply_fixes_any"
  /\ UNCHANGED <<heap, sessions, REFS, processor, prev, files>>

NextAny == ApplyFixesAny

SpecAny == Init /\ [][NextAny]_vars

\* is_identifier_column on a one-column table of texts.
MaxColumnRows == 5
c_code == <<"c","o","d","e">>
ColumnTables ==
  {MakeTable(<<col>>, RangeIndex(Len(cells)),
             [p \in 1..Len(cells) |-> (col :> cells[p])]) :
     col \in {c_code, c_roll_id},
     cells \in SeqsUpTo({t_12, t_ab}, MaxColumnRows)}

IsIdentifierColumn ==
  /\ pc = "idle"
  /\ \E df \in ColumnTables :
       /\ call' = [op |-> "is_identifier_column", df |-> df, col |-> df.columns[1]]
       /\ result' = [op |-> "is_identifier_column",
                     out |-> is_identifier_column(df, df.columns[1])]
  /\ pc' = "is_identifier_column"
  /\ UNCHANGED <<heap, sessions, REFS, processor, prev, files>>

NextIdent == IsIdentifierColumn

SpecIdent == Init /\ [][NextIdent]_vars

\* ai/cleaning.py: the whitelist and the user mappings are written, then a
\* table is cleaned.
WhitelistChoices == {{t_usa}, {t_USA}}
MappingSources == {t_usa, t_USA}
MappingTargets == {t_India, t_USA}
\* What the service does with a request: no answer in time, an error status,
\* a body that is no json, or a json object whose "cleaned" is null, a text
\* or a number.
PdlResponses ==
  {[kind |-> k, cleaned |-> NoneVal] : k \in {"timeout", "status", "not_json"}}
  \cup {[kind |-> "json", cleaned |-> c] : c \in {NoneVal, t_India, PyNumber}}

SaveWhitelistItems ==
  /\ pc = "idle"
  /\ \E items \in WhitelistChoices :
       files' = [files EXCEPT !.whitelist = SortedTexts(items)]
  /\ UNCHANGED <<heap, sessions, REFS, processor, pc, call, prev, result>>

SaveUserMapping ==
  /\ pc = "idle"
  /\ \E src \in MappingSources, target \in MappingTargets :
       files' = [files EXCEPT !.user_mappings =
                   json_dump(UpsertMapping(load_user_mappings, src, target))]
  /\ UNCHANGED <<heap, sessions, REFS, processor, pc, call, prev, result>>

\* What a call of clean_dataframe leaves: the cleaned table, or no table when
\* a cell raised.
NoLog == [log |-> <<>>, raised |-> FALSE]
CleanResult(df, response, run) ==
  [op |-> "clean_dataframe", raised |-> run.raised,
   df |-> IF run.raised THEN NoneVal ELSE clean_dataframe(df, response)]

CleanDataframe ==
  /\ pc = "idle"
  /\ \E df \in RecordTables, response \in PdlResponses :
       /\ call' = [op |-> "clean_dataframe", df |-> df, response |-> response]
       /\ result' = CleanResult(df, response, TableLog(df, response, 1, NoLog))
       /\ files' = [files EXCEPT !.change_log =
                      AppendAll(@, TableLog(df, response, 1, NoLog).log)]
  /\ pc' = "clean_dataframe"
  /\ UNCHANGED <<heap, sessions, REFS, processor, prev>>

NextClean == SaveWhitelistItems \/ SaveUserMapping \/ CleanDataframe

SpecClean == Init /\ [][NextClean]_vars

\* ai/cleaning.py: save_user_mapping step by step (the file is read, opened
\* for writing, which empties it, and written), with another session of the
\* app loading the mappings at any moment.
t_Usa == <<"U","s","a">>
StoreSources == {t_usa, t_USA, t_Usa, t_India}
StoreTargets == {t_India, t_USA}
RawValues == {t_usa, t_USA, t_Usa, t_India, t_indiaa}

\* lines 74-75: m = load_user_mappings(); m[src.lower()] = target
SaveUserMappingLoad ==
  /\ pc = "idle"
  /\ \E src \in StoreSources, target \in StoreTargets :
       call' = [op |-> "save_user_mapping", src |-> src, target |-> target,
                m |-> UpsertMapping(load_user_mappings, src, target)]
  /\ prev' = [op |-> "store", mapping |-> load_user_mappings]
  /\ pc' = "save_loaded"
  /\ UNCHANGED <<heap, sessions, REFS, processor, result, files>>

\* line 49: open(path, "w") leaves the file empty
SaveJsonOpen ==
  /\ pc = "save_loaded"
  /\ files' = [files EXCEPT !.user_mappings = <<>>]
  /\ pc' = "save_opened"
  /\ UNCHANGED <<heap, sessions, REFS, processor, call, prev, result>>

\* line 49: json.dump writes the text; it reaches the file in one or more
\* writes, the last one when the file object is closed.
SaveJsonWrite ==
  /\ pc = "save_opened"
  /\ \E n \in (Len(files.user_mappings) + 1)..Len(json_dump(call.m)) :
       /\ files' = [files EXCEPT !.user_mappings = SubSeq(json_dump(call.m), 1, n)]
       /\ pc' = IF n = Len(json_dump(call.m)) THEN "idle" ELSE "save_opened"
  /\ UNCHANGED <<heap, sessions, REFS, processor, call, prev, result>>

\* load_user_mappings() in another session.  pre and post are the mapping
\* before and after the save in progress (both the stored mapping when no
\* save is in progress).
LoadUserMappings ==
  /\ result' = [op |-> "load_user_mappings",
                seen |-> load_user_mappings,
                pre |-> IF pc = "idle" THEN load_user_mappings ELSE prev.mapping,
                post |-> IF pc = "idle" THEN load_user_mappings ELSE call.m]
  /\ UNCHANGED <<heap, sessions, REFS, processor, pc, call, prev, files>>

NextStore ==
  SaveUserMappingLoad \/ SaveJsonOpen \/ SaveJsonWrite \/ LoadUserMappings

SpecStore == Init /\ [][NextStore]_vars

\* Tables as objects: the caller reads a file into a DataFrame and hands the
\* reference to apply_fixes or to clean_dataframe.  An assignment df[c] = ...
\* changes the object df names, whoever else names it.
Store(h, ref, table) == [h EXCEPT ![ref] = table]

\* df.copy() taken for another name of the same object.
DataFrameAlias(h, ref) == [heap |-> h, ref |-> ref]

\* df.copy(deep=True) (df.copy() is the same): a new object with the same
\* columns, labels and cells
DataFrameCopy(h, ref) == [heap |-> Append(h, h[ref]), ref |-> Len(h) + 1]

\* apply_fixes lines 140-322 on objects: every df[c] = ... of the body writes
\* to the object line 140 bound df to, and that object is returned as
\* cleaned_df.
ApplyFixesOn(copy, columns_config, manual_mappings, fuzzy_threshold) ==
  [op |-> "apply_fixes", returned |-> TRUE, ref |-> copy.ref,
   heap |-> Store(copy.heap, copy.ref,
                  Cleaned(copy.heap[copy.ref], columns_config, manual_mappings,
                          fuzzy_threshold))]

\* clean_dataframe lines 163-188: a cell of the column raises
ColumnRaises(df, col, response) ==
  \E p \in 1..NRows(df) : CleanCell(col, df.rows[p][col], response).raised

\* lines 167-186: the list corrected of one column
CorrectedColumn(df, col, response) ==
  [p \in 1..NRows(df) |-> CleanCell(col, df.rows[p][col], response).cell]

\* lines 163-188 from the k-th column on: df[col] = corrected is reached for
\* the columns before the first one in which a cell raises.
RECURSIVE CleanColumnsFrom(_, _, _)
CleanColumnsFrom(df, response, k) ==
  IF k > Len(df.columns) THEN df
  ELSE IF is_identifier_column(df, df.columns[k])
  THEN CleanColumnsFrom(df, response, k + 1)
  ELSE IF ColumnRaises(df, df.columns[k], response) THEN df
  ELSE CleanColumnsFrom(
         SetCol(df, df.columns[k], CorrectedColumn(df, df.columns[k], response)),
         response, k + 1)

\* clean_dataframe on objects: line 160 binds df to the copy, line 190 returns
\* it unless a cell raised.
CleanDataframeOn(copy, response) ==
  [op |-> "clean_dataframe",
   returned |-> ~TableLog(copy.heap[copy.ref], response, 1, NoLog).raised,
   ref |-> copy.ref,
   heap |-> Store(copy.heap, copy.ref,
                  CleanColumnsFrom(copy.heap[copy.ref], response, 1))]

\* What the caller gets back: whether the call returned, and the returned
\* object.
Outcome(done) == [op |-> done.op, returned |-> done.returned, ref |-> done.ref]

\* app.py lines 200-203: the uploaded file is read into a new DataFrame.
ReadUpload ==
  /\ pc = "idle"
  /\ \E df \in RecordTables :
       /\ heap' = Append(heap, df)
       /\ call' = [op |-> "read", ref |-> Len(heap) + 1, df |-> df]
  /\ pc' = "uploaded"
  /\ UNCHANGED <<sessions, REFS, processor, prev, result, files>>

\* apply_fixes(df, ...) on the caller's table; call.df is the table as it was
\* when the call was made.
ApplyFixesCall ==
  /\ pc = "uploaded"
  /\ \E cfg \in ColumnConfigs, m \in MappingChoices, thr \in Thresholds :
       /\ call' = [op |-> "apply_fixes", ref |-> call.ref, df |-> heap[call.ref],
                   columns_config |-> cfg, manual_mappings |-> m,
                   fuzzy_threshold |-> thr, response |-> NoneVal]
       /\ heap' = ApplyFixesOn(DataFrameCopy(heap, call.ref), cfg, m, thr).heap
       /\ result' = Outcome(ApplyFixesOn(DataFrameCopy(heap, call.ref), cfg, m, thr))
  /\ pc' = "called"
  /\ UNCHANGED <<sessions, REFS, processor, prev, files>>

\* clean_dataframe(df) on the caller's table.
CleanDataframeCall ==
  /\ pc = "uploaded"
  /\ \E response \in PdlResponses :
       /\ call' = [op |-> "clean_dataframe", ref |-> call.ref, df |-> heap[call.ref],
                   columns_config |-> NoConfig, manual_mappings |-> NoMappings,
                   fuzzy_threshold |-> NameCutoff, response |-> response]
       /\ heap' = CleanDataframeOn(DataFrameCopy(heap, call.ref), response).heap
       /\ result' = Outcome(CleanDataframeOn(DataFrameCopy(heap, call.ref), response))
       /\ files' = [files EXCEPT !.change_log =
                      AppendAll(@, TableLog(heap[call.ref], response, 1, NoLog).log)]
  /\ pc' = "called"
  /\ UNCHANGED <<sessions, REFS, processor, prev>>

NextFrame == ReadUpload \/ ApplyFixesCall \/ CleanDataframeCall

SpecFrame == Init /\ [][NextFrame]_vars

\* ai/cleaning.py append_changelog in two sessions of the app at once, step
\* by step: the log is loaded and the entry appended in memory, the file is
\* opened for writing, which empties it, and the text is written.  The log is
\* short, so the text reaches the file in one write when the file object is
\* closed.
MaxAppends == 2

\* lines 177-183: the entry a session logs for the correction it made
EntryOf(s) ==
  IF s = "s1"
  THEN [column |-> c_country, original |-> t_usa, corrected |-> t_USA,
        method |-> "user_mapping"]
  ELSE [column |-> c_country, original |-> t_indiaa, corrected |-> t_India,
        method |-> "fuzzy"]

\* lines 52-53: log = load_json(CHANGELOG_PATH, []); log.append(entry)
AppendLoad(s) ==
  /\ sessions[s].at = "idle"
  /\ Len(sessions[s].appended) < MaxAppends
  /\ sessions' = [sessions EXCEPT ![s].at = "loaded",
                                  ![s].entry = EntryOf(s),
                                  ![s].log = Append(load_changelog(files.change_log),
                                                    EntryOf(s))]
  /\ UNCHANGED <<heap, REFS, processor, pc, call, prev, result, files>>

\* line 49: open(path, "w") leaves the file empty
AppendOpen(s) ==
  /\ sessions[s].at = "loaded"
  /\ files' = [files EXCEPT !.change_log = <<>>]
  /\ sessions' = [sessions EXCEPT ![s].at = "opened"]
  /\ UNCHANGED <<heap, REFS, processor, pc, call, prev, result>>

\* line 49: json.dump writes the log held in memory; the call returns
AppendWrite(s) ==
  /\ sessions[s].at = "opened"
  /\ files' = [files EXCEPT !.change_log =
                 WriteFromStart(@, json_dump_list(sessions[s].log))]
  /\ sessions' = [sessions EXCEPT ![s].at = "idle",
                                  ![s].entry = NoneVal,
                                  ![s].log = <<>>,
                                  ![s].appended = Append(@, EntryOf(s))]
  /\ UNCHANGED <<heap, REFS, processor, pc, call, prev, result>>

NextLog ==
  \E s \in Sessions : AppendLoad(s) \/ AppendOpen(s) \/ AppendWrite(s)

SpecLog == Init /\ [][NextLog]_vars

(***************************************************************************)
(* ai/context_ai_correct.py and ai/autocorrect_hybrid.py                   *)
(***************************************************************************)
t_teh == <<"t","e","h">>
t_hte == <<"h","t","e">>
t_the == <<"t","h","e">>
t_Teh == <<"T","e","h">>
t_imndfia == <<"i","m","n","d","f","i","a">>
t_None == <<"N","o","n","e">>
t_at == <<"@">>

\* str.upper()
Upper(s) == [i \in 1..Len(s) |-> UpperChar(s[i])]

\* str.capitalize()
Capitalize(s) ==
  [i \in 1..Len(s) |-> IF i = 1 THEN UpperChar(s[i]) ELSE LowerChar(s[i])]

\* str.istitle(), str.isupper(), str.isdigit()
IsTitle(w) == Title(w) = w /\ \E i \in 1..Len(w) : IsLetter(w[i])
IsUpper(w) ==
  /\ \A i \in 1..Len(w) : ~IsLowerChar(w[i])
  /\ \E i \in 1..Len(w) : IsUpperChar(w[i])
IsDigits(w) == w # <<>> /\ \A i \in 1..Len(w) : IsDigit(w[i])

\* str.split(): the runs of characters between white space
FirstWordLen(t) ==
  IF \E i \in 1..Len(t) : IsSpace(t[i])
  THEN (CHOOSE i \in 1..Len(t) :
          IsSpace(t[i]) /\ \A j \in 1..(i - 1) : ~IsSpace(t[j])) - 1
  ELSE Len(t)
RECURSIVE Words(_)
Words(s) ==
  IF Strip(s) = <<>> THEN <<>>
  ELSE <<SubSeq(Strip(s), 1, FirstWordLen(Strip(s)))>>
       \o Words(SubSeq(Strip(s), FirstWordLen(Strip(s)) + 1, Len(Strip(s))))

\* " ".join(words)
RECURSIVE Join(_)
Join(words) ==
  IF words = <<>> THEN <<>>
  ELSE IF Len(words) = 1 THEN words[1]
  ELSE words[1] \o <<" ">> \o Join(Tail(words))

\* re.sub(r'[^\w\s]', '', s): letters, digits, '_' and white space stay
RECURSIVE WordChars(_)
WordChars(s) ==
  IF s = <<>> THEN <<>>
  ELSE IF IsLetter(Head(s)) \/ IsDigit(Head(s)) \/ IsSpace(Head(s)) \/ Head(s) = "_"
  THEN <<Head(s)>> \o WordChars(Tail(s))
  ELSE WordChars(Tail(s))

\* autocorrect_hybrid.py: custom_words.txt does not exist; the known names,
\* cities and countries are the lower-cased reference lists.
load_custom_words == {}
HybridKnown ==
  LowerSet(KNOWN_NAMES) \cup LowerSet(KNOWN_CITIES) \cup LowerSet(KNOWN_COUNTRIES)

\* hybrid_text_suggestions lines 72-108 for one word.  spell is the
\* dictionary of the spell checker: the words it knows, and for other words
\* the suggestion lines 95-106 arrive at (the word itself when there is
\* none).
HybridWord(word, spell) ==
  IF \/ IsDigits(Lower(word))
     \/ Contains(Lower(word), t_at)
     \/ Lower(word) \in load_custom_words
     \/ Lower(word) \in HybridKnown
     \/ IsTitle(word)
     \/ IsUpper(word)
  THEN word
  ELSE IF Lower(word) \in spell.known THEN word
  ELSE IF Lower(word) \in DOMAIN spell.best THEN spell.best[Lower(word)]
  ELSE word

\* hybrid_text_clean(text)
hybrid_text_clean(text, spell) ==
  Join([k \in 1..Len(Words(text)) |-> HybridWord(Words(text)[k], spell)])

\* gpt_context_correction: the entries of replacements that the words of the
\* model can spell (lines 22, 26, 27)
replacements == (t_imndfia :> t_India) @@ (t_hte :> t_the) @@ (t_teh :> t_the)

\* correct_word(word), lines 38-47
correct_word(word) ==
  IF WordChars(Lower(word)) \in DOMAIN replacements
  THEN IF IsTitle(word) THEN Capitalize(replacements[WordChars(Lower(word))])
       ELSE IF IsUpper(word) THEN Upper(replacements[WordChars(Lower(word))])
       ELSE replacements[WordChars(Lower(word))]
  ELSE word

\* gpt_context_correction(text), lines 7-54, for a str
gpt_context_correction(text) ==
  normalize_whitespace(
    Join([k \in 1..Len(Words(text)) |-> correct_word(Words(text)[k])]))

\* Series.astype(str) on an object column: None becomes the text 'None'
AsStr(x) == IF x = NoneVal THEN t_None ELSE x

\* pd.api.types.is_numeric_dtype(df[col]): every cell is a number
IsNumericDtype(df, col) ==
  NRows(df) > 0 /\ \A p \in 1..NRows(df) : df.rows[p][col] = PyNumber

\* A label that df.columns holds twice: df[col] is then a DataFrame, which
\* has no dtype, and line 66 raises AttributeError.  (The rows of the model
\* keep one cell per label; the cells of such a column are never read.)
Duplicated(df, col) ==
  Cardinality({k \in 1..Len(df.columns) : df.columns[k] = col}) > 1

\* line 79: df[col] = df[col].astype(str).fillna("")
Converted(df, col) ==
  SetCol(df, col, [p \in 1..NRows(df) |-> AsStr(df.rows[p][col])])

\* line 82 after line 79: df[col] = df[col].apply(...)
ContextCorrected(df, col, spell) ==
  SetCol(df, col,
    [p \in 1..NRows(df) |->
       gpt_context_correction(hybrid_text_clean(AsStr(df.rows[p][col]), spell))])

\* What goes wrong outside the function's own code: nothing, the hybrid
\* cleaning of a cell of the col-th column raises (the spell checker's
\* dictionary or custom_words.txt cannot be read), or writing the csv file
\* raises.
NoFault == [kind |-> "none", col |-> 0]
Faults(df) ==
  {NoFault, [kind |-> "to_csv", col |-> 0]}
  \cup {[kind |-> "column", col |-> k] : k \in 1..Len(df.columns)}

\* lines 65-82 from the k-th label on, on the object ref names: the heap it
\* leaves and whether an exception left the loop.
RECURSIVE ContextColumnsFrom(_, _, _, _, _)
ContextColumnsFrom(h, ref, spell, fault, k) ==
  IF k > Len(h[ref].columns) THEN [heap |-> h, raised |-> FALSE]
  ELSE IF Duplicated(h[ref], h[ref].columns[k]) THEN [heap |-> h, raised |-> TRUE]
  ELSE IF IsNumericDtype(h[ref], h[ref].columns[k])
  THEN ContextColumnsFrom(h, ref, spell, fault, k + 1)
  ELSE IF fault.kind = "column" /\ fault.col = k
  THEN [heap |-> Store(h, ref, Converted(h[ref], h[ref].columns[k])),
        raised |-> TRUE]
  ELSE ContextColumnsFrom(
         Store(h, ref, ContextCorrected(h[ref], h[ref].columns[k], spell)),
         ref, spell, fault, k + 1)

\* df.to_csv(output_path, index=False): the column labels and the rows
to_csv(df) == [columns |-> df.columns, rows |-> df.rows]

\* lines 84-100 after the loop: the csv file is written unless an exception
\* was raised; the except clause returns df, the object passed in.
ContextReturn(loop, ref, fault, csv) ==
  [op |-> "safe_context_ai_clean",
   caught |-> loop.raised \/ fault.kind = "to_csv",
   ref |-> ref,
   heap |-> loop.heap,
   csv |-> IF loop.raised \/ fault.kind = "to_csv" THEN csv
           ELSE to_csv(loop.heap[ref])]

safe_context_ai_clean(h, ref, spell, fault, csv) ==
  ContextReturn(ContextColumnsFrom(h, ref, spell, fault, 1), ref, fault, csv)

\* The dictionaries of the spell checker.
Spellers ==
  { [known |-> {t_the}, best |-> (t_teh :> t_the)],
    [known |-> {t_the, t_teh}, best |-> (t_hte :> t_the)] }

\* Tables of texts with missing cells, with a numeric column, and with a
\* label that occurs twice.
MaxContextRows == 2
ContextRows ==
  {(c_roll_id :> PyNumber) @@ (c_name :> n) @@ (c_city :> c) :
     n \in {NoneVal, t_Jon, t_teh, t_Teh}, c \in {t_Pune, t_teh}}
ContextTables ==
  {MakeTable(cols, RangeIndex(Len(cells)), cells) :
     cols \in {<<c_name, c_city>>, <<c_roll_id, c_name, c_city>>,
               <<c_name, c_city, c_city>>},
     cells \in SeqsUpTo(ContextRows, MaxContextRows) \ {<<>>}}

\* app.py lines 198-203: the uploaded file is read into a new DataFrame.
ReadTable ==
  /\ pc = "idle"
  /\ \E df \in ContextTables :
       /\ heap' = Append(heap, df)
       /\ call' = [op |-> "read", ref |-> Len(heap) + 1, df |-> df]
  /\ pc' = "read"
  /\ UNCHANGED <<sessions, REFS, processor, prev, result, files>>

\* safe_context_ai_clean(df) on the caller's table; call.df is the table as
\* it was when the call was made.
SafeContextAiClean ==
  /\ pc = "read"
  /\ \E spell \in Spellers, fault \in Faults(heap[call.ref]) :
       /\ call' = [op |-> "safe_context_ai_clean", ref |-> call.ref,
                   df |-> heap[call.ref], spell |-> spell, fault |-> fault]
       /\ heap' = safe_context_ai_clean(heap, call.ref, spell, fault,
                                        files.cleaned_output).heap
       /\ files' = [files EXCEPT !.cleaned_output =
                      safe_context_ai_clean(heap, call.ref, spell, fault, @).csv]
       /\ result' = [op |-> "safe_context_ai_clean",
                     caught |-> safe_context_ai_clean(heap, call.ref, spell, fault,
                                                      files.cleaned_output).caught,
                     ref |-> call.ref]
  /\ pc' = "context_cleaned"
  /\ UNCHANGED <<sessions, REFS, processor, prev>>

NextContext == ReadTable \/ SafeContextAiClean

SpecContext == Init /\ [][NextContext]_vars

(***************************************************************************)
(* Properties                                                              *)
(***************************************************************************)
Returned == pc \in {"apply_fixes", "rerun"}
Roles == ColumnsConfig(call.df, call.columns_config)
Dups == result.duplicates_df
PairAt(k) == <<Dups[k].row_i, Dups[k].row_j>>
InDups(i, j) == \E k \in 1..Len(Dups) : PairAt(k) = <<i, j>>
NameOf(df, p) == df.rows[p][Roles.name_col]
CityOf(df, p) == df.rows[p][Roles.city_col \o canonical_suffix]
HasCanonicalCity(df) ==
  Truthy(Roles.city_col) /\ HasCol(df, Roles.city_col \o canonical_suffix)
SameNameKey(df, p, q) ==
  HasCol(df, Roles.name_col) =>
    Lower(Prefix(NameOf(df, p), 1)) = Lower(Prefix(NameOf(df, q), 1))
SameCityKey(df, p, q) ==
  HasCanonicalCity(df) =>
    Lower(Prefix(CityOf(df, p), 3)) = Lower(Prefix(CityOf(df, q), 3))

\* C1: the duplicate pairs apply_fixes returns are in ascending order of
\* (row_i, row_j).
C1_PairsSorted ==
  Returned =>
    \A k \in 1..(Len(Dups) - 1) :
      \/ Dups[k].row_i < Dups[k+1].row_i
      \/ Dups[k].row_i = Dups[k+1].row_i /\ Dups[k].row_j < Dups[k+1].row_j

\* C2: for a table with a name column and no city column (guessed or
\* configured as absent), every two rows of one block key whose name
\* similarity reaches the threshold are returned as a pair.
C2_NameOnlyPairs ==
  (/\ Returned
   /\ HasCol(call.df, Roles.name_col)
   /\ ~HasCol(call.df, Roles.city_col))
  => \A p \in 1..NRows(call.df) : \A q \in (p+1)..NRows(call.df) :
       LET df == result.cleaned_df
           sim == WRatio(Lower(NameOf(df, p)), Lower(NameOf(df, q)))
       IN (SameNameKey(df, p, q)
           /\ RGeq(sim, RInt(call.fuzzy_threshold)))
          => InDups(p - 1, q - 1)

\* C3: a failure raised while scoring one pair costs only that pair: every
\* pair the loops reach whose own scoring does not raise and whose score
\* reaches the threshold is returned.
C3_PairFailureContained ==
  Returned =>
    LET df == result.cleaned_df
        pairs == CandidatePairs(df, Roles)
    IN \A k \in 1..Len(pairs) :
         (/\ ~ScoringRaises(df, Roles, pairs[k][1], pairs[k][2])
          /\ RGeq(PairScore(df, Roles, pairs[k][1], pairs[k][2]),
                  RInt(call.fuzzy_threshold)))
         => InDups(pairs[k][1], pairs[k][2])

\* C4: the same call with a higher threshold returns at most as many pairs.
C4_ThresholdMonotone ==
  pc = "rerun" => Len(result.duplicates_df) <= Len(prev.duplicates_df)

C6_PairsOrderedOnce ==
  Returned =>
    /\ \A k \in 1..Len(Dups) : Dups[k].row_i < Dups[k].row_j
    /\ \A k, l \in 1..Len(Dups) :
         k # l => {Dups[k].row_i, Dups[k].row_j} # {Dups[l].row_i, Dups[l].row_j}

\* C6 witness: one bucket of three rows gave its three pairs.
C6_Witness ==
  /\ pc = "apply_fixes"
  /\ \E a, b, c \in 0..(NRows(call.df) - 1) :
       a < b /\ b < c /\ InDups(a, b) /\ InDups(a, c) /\ InDups(b, c)

\* C7: a cell whose value is present in the whitelist is returned unchanged
\* by clean_dataframe, whatever user mapping, service answer or fuzzy match
\* exists for it.
C7_WhitelistedKept ==
  (pc = "clean_dataframe" /\ ~result.raised) =>
    \A k \in 1..Len(call.df.columns) : \A p \in 1..NRows(call.df) :
      LET col == call.df.columns[k]
      IN call.df.rows[p][col] \in load_whitelist
         => result.df.rows[p][col] = call.df.rows[p][col]

\* C8: a cell that has a manual mapping and an exact or fuzzy reference
\* match comes out as the mapping's target, unchanged.
HasCountryMatch(v) ==
  \/ Lower(v) \in country_set
  \/ LET m == fuzzy_match_one(v, REFS.country_list)
     IN Truthy(m.match) /\ RGeq(m.score, RInt(call.fuzzy_threshold))
C8_OverrideWins ==
  (Returned /\ Roles.country_col \in DOMAIN call.manual_mappings
            /\ HasCol(call.df, Roles.country_col))
  => \A p \in 1..NRows(call.df) :
       LET col == Roles.country_col
           v == normalize_whitespace(call.df.rows[p][col])
           mapping == call.manual_mappings[col]
       IN (v \in DOMAIN mapping /\ HasCountryMatch(v))
          => result.cleaned_df.rows[p][col \o canonical_suffix] = mapping[v]

\* C9: every cell of a column whose name holds an identifier keyword is the
\* same in the output table as in the input table.
IdentifierKeywords ==
  { <<"r","o","l","l">>, <<"i","d">>, <<"e","m","p">>, <<"p","h","o","n","e">>,
    <<"m","o","b","i","l","e">>, <<"a","d","h","a","r">>,
    <<"a","a","d","h","a","r">>, <<"s","s","n">> }
HasIdentifierName(col) == \E k \in IdentifierKeywords : Contains(Lower(col), k)
C9_IdentifierColumnsKept ==
  Returned =>
    \A k \in 1..Len(call.df.columns) :
      HasIdentifierName(call.df.columns[k]) =>
        \A p \in 1..NRows(call.df) :
          result.cleaned_df.rows[p][call.df.columns[k]]
            = call.df.rows[p][call.df.columns[k]]

\* C10: correct_value_by_type applied to its own output returns that output.
C10_Idempotent ==
  pc = "recanonicalized" => result.out = prev.out

\* C11: after a sequence of save_user_mapping calls every stored key is
\* lower-case, a raw value in any casing looks up the target of the last call
\* whose src equals it up to case (the other values look up what they did
\* before the call), and repeating a call leaves the store as it was.
Saved == pc = "idle" /\ call.op = "save_user_mapping"
LookupUser(v) == suggest_corrections_for_value(v, h_country, NoneVal)
C12_ReaderSeesWhole ==
  result.op = "load_user_mappings" => result.seen \in {result.pre, result.post}

\* C13: with every reference list empty, the canonical value of a country or
\* city is the title-cased input and that of a name is the input with its
\* capitalization put right (the same letters, the first one upper-case);
\* nothing is replaced by a reference entry.
NoReferences ==
  REFS.country_list = <<>> /\ REFS.city_list = <<>> /\ REFS.name_list = <<>>
C13_EmptyRefsFallBack ==
  (pc = "canonicalized" /\ NoReferences) =>
    IF call.col_type = "name"
    THEN /\ Lower(result.out) = Lower(normalize_whitespace(call.val))
         /\ ~IsLowerChar(result.out[1])
    ELSE result.out = Title(normalize_whitespace(call.val))

\* C14: a timeout, an error status or a malformed answer of the service is
\* no suggestion and is not raised: clean_dataframe returns the table it
\* returns when the service has nothing to say.
NoAnswer == [kind |-> "json", cleaned |-> NoneVal]
ServiceFails(response) ==
  \/ response.kind \in {"timeout", "status", "not_json"}
  \/ response.kind = "json" /\ response.cleaned = PyNumber
C14_ServiceFailureContained ==
  (pc = "clean_dataframe" /\ ServiceFails(call.response)) =>
    /\ ~result.raised
    /\ result.df = clean_dataframe(call.df, NoAnswer)

\* C15: apply_fixes on None or on a value that is no table raises (ValueError
\* for None, TypeError otherwise) and returns nothing; on a table it returns.
C15_InvalidInputRaises ==
  pc = "apply_fixes_any" =>
    IF IsDataFrame(call.df)
    THEN result.returned /\ result.raised = "none"
    ELSE /\ ~result.returned
         /\ result.raised = (IF call.df = PyNone THEN "ValueError" ELSE "TypeError")

\* C15 witness: the call on None raised ValueError.
C15_Witness ==
  /\ pc = "apply_fixes_any"
  /\ call.df = PyNone
  /\ result.raised = "ValueError"
  /\ ~result.returned

\* C16: with the country list ["India", "USA"] and cutoff 88 the country
\* "indya" matches "India" with a score of at least 88 and comes out as
\* "India".
C16_IndyaToIndia ==
  (/\ pc = "canonicalized"
   /\ call.val = t_indya /\ call.col_type = "country"
   /\ call.fuzzy_threshold = 88
   /\ REFS.country_list = <<t_India, t_USA>>)
  => /\ fuzzy_match_one(t_indya, REFS.country_list).match = t_India
     /\ RGeq(fuzzy_match_one(t_indya, REFS.country_list).score, RInt(88))
     /\ result.out = t_India

\* C19: a country, city or name that is no exact member of its reference set
\* and whose best match reaches the cutoff comes out as the matched entry,
\* as the reference list stores it.
RefList(col_type) ==
  IF col_type = "country" THEN REFS.country_list
  ELSE IF col_type = "city" THEN REFS.city_list
  ELSE REFS.name_list
Cutoff(col_type, fuzzy_threshold) ==
  IF col_type = "name" THEN NameCutoff ELSE fuzzy_threshold
C19_MatchedEntryVerbatim ==
  (/\ pc = "canonicalized"
   /\ call.col_type \in {"country", "city", "name"}
   /\ Lower(Strip(call.val)) \notin LowerSet(RefList(call.col_type))
   /\ Truthy(fuzzy_match_one(Strip(call.val), RefList(call.col_type)).match)
   /\ RGeq(fuzzy_match_one(Strip(call.val), RefList(call.col_type)).score,
           RInt(Cutoff(call.col_type, call.fuzzy_threshold))))
  => result.out = fuzzy_match_one(Strip(call.val), RefList(call.col_type)).match

\* C17: a column whose name holds no identifier keyword, with exactly 80% of
\* its values purely numeric and an average value length below 12, is
\* detected as an identifier column.
NumericCount(df, col) ==
  Cardinality({p \in 1..NRows(df) : IsNumeric(df.rows[p][col])})
C17_EightyPercentDetected ==
  (/\ pc = "is_identifier_column"
   /\ ~HasIdentifierName(call.col)
   /\ NRows(call.df) > 0
   /\ 5 * NumericCount(call.df, call.col) = 4 * NRows(call.df)
   /\ SumLen(Column(call.df, call.col), 1) < 12 * NRows(call.df))
  => result.out

\* C18: in the score of a pair a field that is empty on either row counts as
\* similarity 0 and keeps its weight: the score is 0.75 times the name
\* similarity plus 0.25 times the city similarity, each 0 when the field is
\* empty on one of the two rows.
REq(a, b) == RGeq(a, b) /\ RGeq(b, a)
FieldSimilarity(a, b) ==
  IF a = <<>> \/ b = <<>> THEN RZero ELSE WRatio(Lower(a), Lower(b))
WeightedScore(df, p, q) ==
  Combine(FieldSimilarity(NameOf(df, p), NameOf(df, q)),
          FieldSimilarity(CityOf(df, p), CityOf(df, q)))
C18_EmptyFieldKeepsWeight ==
  (/\ pc = "apply_fixes"
   /\ HasCol(result.cleaned_df, Roles.name_col)
   /\ HasCanonicalCity(result.cleaned_df))
  => \A p \in 1..NRows(call.df) : \A q \in (p + 1)..NRows(call.df) :
       (/\ block_key(result.cleaned_df, Roles, p) = block_key(result.cleaned_df, Roles, q)
        /\ (\/ NameOf(result.cleaned_df, p) = <<>>
            \/ NameOf(result.cleaned_df, q) = <<>>
            \/ CityOf(result.cleaned_df, p) = <<>>
            \/ CityOf(result.cleaned_df, q) = <<>>))
       => REq(PairScore(result.cleaned_df, Roles, p - 1, q - 1),
              WeightedScore(result.cleaned_df, p, q))

\* C20: after apply_fixes without manual mappings, whatever the columns are
\* called, the raw country column and the raw city column hold the input
\* values with only their whitespace trimmed and collapsed.
RawKept(col) ==
  (Truthy(col) /\ HasCol(call.df, col)) =>
    \A p \in 1..NRows(call.df) :
      result.cleaned_df.rows[p][col] = normalize_whitespace(call.df.rows[p][col])
C20_RawColumnsKept ==
  (pc = "apply_fixes" /\ DOMAIN call.manual_mappings = {})
  => RawKept(Roles.country_col) /\ RawKept(Roles.city_col)


\* C21: apply_fixes and clean_dataframe leave the table passed in as it was:
\* after the call the caller's object has the columns, labels and cells it had
\* when the call was made, and the corrected table is another object, the one
\* returned.
Expected ==
  IF call.op = "apply_fixes"
  THEN Cleaned(call.df, call.columns_config, call.manual_mappings,
               call.fuzzy_threshold)
  ELSE clean_dataframe(call.df, call.response)
C21_InputTableUnchanged ==
  pc = "called" =>
    /\ heap[call.ref] = call.df
    /\ result.returned =>
         /\ result.ref # call.ref
         /\ heap[result.ref] = Expected

\* an apply_fixes call that returned a table with corrections in it
C21_Witness ==
  /\ pc = "called"
  /\ call.op = "apply_fixes"
  /\ result.returned
  /\ heap[result.ref] # call.df
  /\ \E p \in 1..NRows(call.df) :
       heap[result.ref].rows[p][c_country] # call.df.rows[p][c_country]


\* C22: no entry of the change log is lost: when no append_changelog call is
\* in progress, the stored log holds every entry of every call that returned,
\* as many times as it was appended.
Occurrences(log, e) == Cardinality({k \in 1..Len(log) : log[k] = e})
C22_NoEntryLost ==
  (\A s \in Sessions : sessions[s].at = "idle") =>
     \A s \in Sessions :
        Occurrences(load_changelog(files.change_log), EntryOf(s))
          >= Len(sessions[s].appended)


\* C23: when safe_context_ai_clean catches an exception, the table it returns
\* and the caller's table have every column as it was when the call was made.
C23_FailureLeavesInput ==
  pc = "context_cleaned" /\ result.caught =>
    /\ heap[result.ref] = call.df
    /\ heap[call.ref] = call.df

====
